---- MODULE Spec2Model ----
(***************************************************************************)
(* CHP + boiler economic dispatch: the direct MILP formulation             *)
(* (ORToolsOptimizer, "Formulation A") and the network formulation         *)
(* (PyPSAOptimizer, "Formulation B").                                      *)
(*                                                                         *)
(* Units.  Gas input is counted on the integer grid 0..p_gas_max.  Heat     *)
(* and electricity are counted in units for which the efficiencies are     *)
(* whole numbers (eta_th of the CHP is 2, of the boiler 1), and demands    *)
(* and the boiler capacity are even, so that every vertex of the           *)
(* continuous feasible region lies on the grid: the grid optimum is the    *)
(* optimum of the continuous MILP.                                         *)
(***************************************************************************)
EXTENDS Integers, Sequences, FiniteSets, TLC

\* ---------------------------------------------------------------- bounds
MaxT == 2
MaxDemandHalf == 4
MaxCalls == 2

\* ---------------------------------------------------------------- inputs
PriceElSet == {0, 2, 10}
PriceGasSet == {1}
DemandSet == {2 * k : k \in 0..MaxDemandHalf}

StepData == [demand_th : DemandSet, price_el : PriceElSet, price_gas : PriceGasSet]

\* the DatetimeIndex of df: one timestamp (in hours) per row, the same hour of
\* consecutive days
Timestamp(t) == 24 * t

\* the frames load_data can return: rows of StepData under their timestamps
DataFrames(n) ==
    {[t \in 1..n |-> [index |-> Timestamp(t), demand_th |-> d[t].demand_th,
                      price_el |-> d[t].price_el, price_gas |-> d[t].price_gas]] :
        d \in [1..n -> StepData]}

ChpBands == {<<1, 0>>, <<2, 1>>, <<2, 2>>, <<3, 3>>, <<4, 3>>}

MakeConfig(band) ==
    [chp |-> [p_gas_max |-> band[1], p_gas_min |-> band[2], eta_el |-> 3,
              eta_th |-> 2, marginal_cost |-> 11],
     boiler |-> [p_gas_max |-> 2, eta_th |-> 1, marginal_cost |-> 1],
     economics |-> [co2_intensity_gas |-> 1],
     data |-> [co2_price |-> 2],
     settings |-> [solver |-> "SCIP"]]

\* a key that the configuration file does not have
Missing == 0 - 1

\* configurations that are not complete or name a solver that is not installed
FaultyConfigs ==
    LET c == MakeConfig(<<2, 1>>) IN
    {[c EXCEPT !.settings.solver = "NOPE"],
     [c EXCEPT !.boiler.eta_th = Missing],
     [c EXCEPT !.chp.p_gas_max = Missing]}

Configs == {MakeConfig(b) : b \in ChpBands} \cup FaultyConfigs

\* the solvers pywraplp.Solver.CreateSolver knows, and the ones linopy knows
AvailableSolversA == {"SCIP"}
AvailableSolversB == {"scip"}

\* str.lower() on the solver names of the configurations
Lower(name) == IF name = "SCIP" THEN "scip" ELSE IF name = "NOPE" THEN "nope" ELSE name

None == << >>

VARIABLES
    data,        \* the DataFrame df: one row per time step
    cfg,         \* the configuration dictionary
    A_results,   \* ORToolsOptimizer.results
    A_status,    \* status of the last ORToolsOptimizer._solve
    A_ret,       \* value returned by the last optimize()
    A_calls,     \* number of optimize() calls made so far
    A_solver,    \* ORToolsOptimizer.solver: None or the numbers of variables and constraints
    A_error,     \* exception raised by the last optimize()
    B_network,   \* PyPSAOptimizer.network
    B_model,     \* names of the custom constraints of network.model
    B_status,    \* (status, condition) of the last solve_model
    B_links_t,   \* network.links_t: p0, p1, p2
    B_results,   \* PyPSAOptimizer.results
    B_ret,       \* value returned by the last get_results()
    B_calls,     \* number of solve() calls made so far
    B_error,     \* exception raised by the last build_model() or solve()
    pc,              \* main(): the step that runs next
    results_ortools, \* main(): results_ortools
    results_pypsa,   \* main(): results_pypsa
    comparison,      \* main(): comparison
    ortools_error,   \* main(): the exception caught by the handler of step 3
    pypsa_error      \* main(): the exception caught by the handler of step 4

varsA == <<A_results, A_status, A_ret, A_calls, A_solver, A_error>>
varsB == <<B_network, B_model, B_status, B_links_t, B_results, B_ret, B_calls, B_error>>

varsM == <<pc, results_ortools, results_pypsa, comparison, ortools_error, pypsa_error>>

vars == <<data, cfg, varsA, varsB, varsM>>

T == Len(data)

RECURSIVE SumTo(_, _)
SumTo(f, n) == IF n = 0 THEN 0 ELSE f[n] + SumTo(f, n - 1)

\* ------------------------------------------------------- Formulation A
c_chp == cfg.chp
c_boiler == cfg.boiler
c_eco == cfg.economics

gas_cost_total(t) == data[t].price_gas + (cfg.data.co2_price * c_eco.co2_intensity_gas)

\* coeff_chp with the CHP's marginal cost left out
coeff_chp_noMarginalCost(t) == (data[t].price_el * c_chp.eta_el) - gas_cost_total(t)

\* coeff_chp with revenue and costs exchanged
coeff_chp_signFlipped(t) ==
    (gas_cost_total(t) + c_chp.marginal_cost) - (data[t].price_el * c_chp.eta_el)

coeff_chp(t) == (data[t].price_el * c_chp.eta_el) - gas_cost_total(t) - c_chp.marginal_cost

coeff_boiler(t) == (0 - gas_cost_total(t)) - c_boiler.marginal_cost

\* the variables of A with the boiler's upper bound left open
VarDomainsA_openBoiler ==
    [chp_gas : 0..c_chp.p_gas_max, chp_status : 0..1, boiler_gas : 0..(2 * MaxDemandHalf)]

\* the variables of A with the commitment variable declared as IntVar(0, 2)
VarDomainsA_statusUpTo2 ==
    [chp_gas : 0..c_chp.p_gas_max, chp_status : 0..2, boiler_gas : 0..c_boiler.p_gas_max]

\* NumVar(0, p_gas_max), IntVar(0, 1), NumVar(0, p_gas_max)
VarDomainsA ==
    [chp_gas : 0..c_chp.p_gas_max, chp_status : 0..1, boiler_gas : 0..c_boiler.p_gas_max]

\* the commitment coupling without its upper half
CommitmentA_noUpper(a) == a.chp_gas >= c_chp.p_gas_min * a.chp_status

\* the commitment coupling without its lower half
CommitmentA_noLower(a) == a.chp_gas <= c_chp.p_gas_max * a.chp_status

CommitmentA(a) ==
    /\ a.chp_gas <= c_chp.p_gas_max * a.chp_status
    /\ a.chp_gas >= c_chp.p_gas_min * a.chp_status

\* the heat balance relaxed to an inequality
HeatBalanceA_leq(a, t) ==
    (a.chp_gas * c_chp.eta_th) + (a.boiler_gas * c_boiler.eta_th) <= data[t].demand_th

HeatBalanceA(a, t) ==
    (a.chp_gas * c_chp.eta_th) + (a.boiler_gas * c_boiler.eta_th) = data[t].demand_th

\* the constraint set without the commitment coupling
ConstraintsA_noCommitment(a, t) == HeatBalanceA(a, t)

ConstraintsA(a, t) == CommitmentA(a) /\ HeatBalanceA(a, t)

FeasibleStepA(t) == {a \in VarDomainsA : ConstraintsA(a, t)}

\* all assignments of the variables of steps 1..n that satisfy every constraint
RECURSIVE FeasibleUpToA(_)
FeasibleUpToA(n) ==
    IF n = 0 THEN {<< >>}
    ELSE {Append(x, a) : x \in FeasibleUpToA(n - 1), a \in FeasibleStepA(n)}

\* the feasible set with a constraint across steps: a CHP that is off stays off
FeasibleA_noRestart ==
    {x \in FeasibleUpToA(T) :
        \A t \in 1..T : t < T => x[t + 1].chp_status <= x[t].chp_status}

FeasibleA == FeasibleUpToA(T)

ObjectiveA(x) ==
    SumTo([t \in 1..T |-> (coeff_chp(t) * x[t].chp_gas) + (coeff_boiler(t) * x[t].boiler_gas)], T)

OptimalA == {x \in FeasibleA : \A y \in FeasibleA : ObjectiveA(y) <= ObjectiveA(x)}

\* _build_model() that asks for the solver only after creating the variables
BuildOutcomeA_lateCheck ==
    IF cfg.settings.solver \notin AvailableSolversA
        THEN [error |-> "ValueError", solver |-> TRUE, n_vars |-> 3 * T, n_cons |-> 0]
        ELSE [error |-> "none", solver |-> TRUE, n_vars |-> 3 * T, n_cons |-> 3 * T]

\* _build_model() in the order of its statements: the exception it raises, if
\* any, and the variables and constraints the solver holds at that point
BuildOutcomeA ==
    LET out(e, s, v, c) == [error |-> e, solver |-> s, n_vars |-> v, n_cons |-> c] IN
    IF cfg.settings.solver \notin AvailableSolversA THEN out("ValueError", FALSE, 0, 0)
    ELSE IF cfg.data.co2_price = Missing \/ c_eco.co2_intensity_gas = Missing
        THEN out("KeyError", TRUE, 0, 0)
    ELSE IF c_chp.p_gas_max = Missing THEN out("KeyError", TRUE, 0, 0)
    ELSE IF c_boiler.p_gas_max = Missing THEN out("KeyError", TRUE, 2 * T, 0)
    ELSE IF c_chp.p_gas_min = Missing THEN out("KeyError", TRUE, 3 * T, 1)
    ELSE IF c_chp.eta_th = Missing \/ c_boiler.eta_th = Missing
        THEN out("KeyError", TRUE, 3 * T, 2)
    ELSE IF c_chp.eta_el = Missing \/ c_chp.marginal_cost = Missing
              \/ c_boiler.marginal_cost = Missing
        THEN out("KeyError", TRUE, 3 * T, 3)
    ELSE out("none", TRUE, 3 * T, 3 * T)

\* self.solver after _build_model()
SolverOf(b) == IF b.solver THEN [n_vars |-> b.n_vars, n_cons |-> b.n_cons] ELSE None

\* pywraplp Solve(): OPTIMAL with an optimal assignment, INFEASIBLE when there
\* is none, ABNORMAL for any other end of the solve (limit, numerical failure)
SolveStatusesA == IF FeasibleA = {} THEN {"INFEASIBLE", "ABNORMAL"} ELSE {"OPTIMAL", "ABNORMAL"}

\* a frame built without index=self.data.index: the default RangeIndex
ExtractResultsA_rangeIndex(x) ==
    [t \in 1..T |->
        [index |-> t - 1,
         chp_gas_in |-> x[t].chp_gas,
         chp_el_out |-> x[t].chp_gas * c_chp.eta_el,
         chp_heat_out |-> x[t].chp_gas * c_chp.eta_th,
         chp_status |-> x[t].chp_status,
         boiler_gas_in |-> x[t].boiler_gas,
         boiler_heat_out |-> x[t].boiler_gas * c_boiler.eta_th]]

ExtractResultsA(x) ==
    [t \in 1..T |->
        [index |-> data[t].index,
         chp_gas_in |-> x[t].chp_gas,
         chp_el_out |-> x[t].chp_gas * c_chp.eta_el,
         chp_heat_out |-> x[t].chp_gas * c_chp.eta_th,
         chp_status |-> x[t].chp_status,
         boiler_gas_in |-> x[t].boiler_gas,
         boiler_heat_out |-> x[t].boiler_gas * c_boiler.eta_th]]

\* optimize(): _build_model(); _solve(); return self.results
OptimizeCall ==
    /\ A_calls < MaxCalls
    /\ A_calls' = A_calls + 1
    /\ A_solver' = SolverOf(BuildOutcomeA)
    /\ A_error' = BuildOutcomeA.error
    /\ IF BuildOutcomeA.error # "none"
          THEN /\ A_ret' = None
               /\ UNCHANGED <<A_results, A_status>>
          ELSE /\ \E st \in SolveStatusesA :
                     /\ A_status' = st
                     /\ IF st = "OPTIMAL"
                           THEN \E x \in OptimalA : A_results' = ExtractResultsA(x)
                           ELSE A_results' = A_results
               /\ A_ret' = A_results'

Optimize ==
    /\ OptimizeCall
    /\ UNCHANGED <<data, cfg>>
    /\ UNCHANGED varsB
    /\ UNCHANGED varsM

\* ------------------------------------------------------- Formulation B
\* a default series that is not made of zeros
Zeros_ones(n) == [t \in 1..n |-> 1]

Zeros(n) == [t \in 1..n |-> 0]

\* dict.get(key, default)
DictGet(value, default) == IF value = Missing THEN default ELSE value

\* the default of cfg["boiler"].get("eta_th", 0.836), in the model's heat unit
DefaultBoilerEtaTh == 1

\* the keys build_model() reads with [] (a missing one raises KeyError)
BuildErrorB ==
    IF \/ cfg.data.co2_price = Missing
       \/ cfg.economics.co2_intensity_gas = Missing
       \/ cfg.chp.eta_th = Missing
       \/ cfg.chp.eta_el = Missing
       \/ cfg.chp.p_gas_max = Missing
       \/ cfg.chp.p_gas_min = Missing
       \/ cfg.boiler.p_gas_max = Missing
    THEN "KeyError" ELSE "none"

\* the network that is left behind when build_model() raises half-way
PartialNetwork == [complete |-> FALSE, snapshots |-> [t \in 1..T |-> data[t].index]]

\* build_model(): carriers, buses, snapshots, Gas_Supply, Market_Sale, CHP,
\* Boiler and Heat_Load of a fresh pypsa.Network
BuildNetwork ==
    [complete |-> TRUE,
     snapshots |-> [t \in 1..T |-> data[t].index],
     Gas_Supply |-> [marginal_cost |-> [t \in 1..T |-> gas_cost_total(t)], sign |-> 1],
     Market_Sale |-> [marginal_cost |-> [t \in 1..T |-> 0 - data[t].price_el], sign |-> 0 - 1],
     CHP |-> [efficiency |-> cfg.chp.eta_th,
              efficiency2 |-> cfg.chp.eta_el,
              p_nom |-> cfg.chp.p_gas_max,
              p_min_pu |-> <<cfg.chp.p_gas_min, cfg.chp.p_gas_max>>,
              marginal_cost |-> DictGet(cfg.chp.marginal_cost, Missing),
              committable |-> TRUE],
     Boiler |-> [efficiency |-> DictGet(cfg.boiler.eta_th, DefaultBoilerEtaTh),
                 p_nom |-> cfg.boiler.p_gas_max,
                 marginal_cost |-> DictGet(cfg.boiler.marginal_cost, Missing),
                 committable |-> FALSE],
     Heat_Load |-> [p_set |-> [t \in 1..T |-> data[t].demand_th]]]

EmptyLinksT == [p0 |-> << >>, p1 |-> << >>, p2 |-> << >>]

BuildModelCall ==
    /\ B_network' = IF BuildErrorB = "none" THEN BuildNetwork ELSE PartialNetwork
    /\ B_error' = BuildErrorB
    /\ B_model' = << >>
    /\ B_links_t' = EmptyLinksT
    /\ UNCHANGED <<B_status, B_results, B_ret, B_calls>>

BuildModel ==
    /\ BuildModelCall
    /\ UNCHANGED <<data, cfg>>
    /\ UNCHANGED varsA
    /\ UNCHANGED varsM

\* create_model() that keeps the model of the previous call
CreateModel_keep == B_model

\* network.optimize.create_model(): the framework's own variables and
\* constraints; no custom constraint yet
CreateModel == << >>

\* add_custom_constraints() that adds nothing
AddCustomConstraints_skip(m) == m

\* add_custom_constraints(): m.add_constraints(chp_p - boiler_p >= 0, name=...)
AddCustomConstraints(m) == Append(m, "CHP_gas_geq_Boiler_gas")

\* a link without a lower bound when it is on
MinDispatch_zero(link) == 0

\* lower bound of a link's dispatch when it is on: p_min_pu * p_nom
MinDispatch(link) == (link.p_min_pu[1] * link.p_nom) \div link.p_min_pu[2]

\* Link-p of CHP and Boiler, Link-status of the committable CHP
VarDomainsB(n) == [chp_p : 0..n.CHP.p_nom, chp_status : 0..1, boiler_p : 0..n.Boiler.p_nom]

\* the custom constraint with its two sides exchanged
CustomConstraintB_reversed(b) == b.boiler_p - b.chp_p >= 0

\* chp_p - boiler_p >= 0 at every snapshot
CustomConstraintB(b) == b.chp_p - b.boiler_p >= 0

ConstraintsB(n, m, b, t) ==
    /\ b.chp_p <= n.CHP.p_nom * b.chp_status
    /\ b.chp_p >= MinDispatch(n.CHP) * b.chp_status
    \* nodal balance of the heat bus
    /\ (n.CHP.efficiency * b.chp_p) + (n.Boiler.efficiency * b.boiler_p) = n.Heat_Load.p_set[t]
    /\ (\E i \in 1..Len(m) : m[i] = "CHP_gas_geq_Boiler_gas") => CustomConstraintB(b)

FeasibleStepB(n, m, t) == {b \in VarDomainsB(n) : ConstraintsB(n, m, b, t)}

RECURSIVE FeasibleUpToB(_, _, _)
FeasibleUpToB(n, m, k) ==
    IF k = 0 THEN {<< >>}
    ELSE {Append(y, b) : y \in FeasibleUpToB(n, m, k - 1), b \in FeasibleStepB(n, m, k)}

FeasibleB(n, m) == FeasibleUpToB(n, m, Len(n.snapshots))

\* an objective without the revenue of Market_Sale
ObjectiveB_noSale(n, y) ==
    SumTo([t \in 1..Len(n.snapshots) |->
              (n.Gas_Supply.marginal_cost[t] * (y[t].chp_p + y[t].boiler_p))
            + (n.CHP.marginal_cost * y[t].chp_p)
            + (n.Boiler.marginal_cost * y[t].boiler_p)], Len(n.snapshots))

\* the framework's objective (minimised): marginal cost times dispatch of every
\* component; Gas_Supply delivers chp_p + boiler_p (gas bus balance) and
\* Market_Sale takes efficiency2 * chp_p (electricity bus balance)
ObjectiveB(n, y) ==
    SumTo([t \in 1..Len(n.snapshots) |->
              (n.Gas_Supply.marginal_cost[t] * (y[t].chp_p + y[t].boiler_p))
            + (n.Market_Sale.marginal_cost[t] * (n.CHP.efficiency2 * y[t].chp_p))
            + (n.CHP.marginal_cost * y[t].chp_p)
            + (n.Boiler.marginal_cost * y[t].boiler_p)], Len(n.snapshots))

OptimalB(n, m) ==
    {y \in FeasibleB(n, m) : \A z \in FeasibleB(n, m) : ObjectiveB(n, z) >= ObjectiveB(n, y)}

\* solve_model(): (status, termination condition)
SolveStatusesB(n, m) ==
    IF FeasibleB(n, m) = {}
        THEN {<<"warning", "infeasible">>, <<"warning", "time_limit">>}
        ELSE {<<"ok", "optimal">>, <<"warning", "time_limit">>}

\* the flows the framework records after a solve with status ok: p0 is the
\* dispatch, p1 and p2 are minus efficiency times the dispatch
AssignSolution(n, y) ==
    LET K == Len(n.snapshots) IN
    [p0 |-> [CHP |-> [t \in 1..K |-> y[t].chp_p],
             Boiler |-> [t \in 1..K |-> y[t].boiler_p]],
     p1 |-> [CHP |-> [t \in 1..K |-> 0 - (n.CHP.efficiency * y[t].chp_p)],
             Boiler |-> [t \in 1..K |-> 0 - (n.Boiler.efficiency * y[t].boiler_p)]],
     p2 |-> [CHP |-> [t \in 1..K |-> 0 - (n.CHP.efficiency2 * y[t].chp_p)]]]

\* DataFrame.get(name, default)
Get(frame, name, default) == IF name \in DOMAIN frame THEN frame[name] ELSE default

\* extraction that copies the CHP's heat flow p1 without negating it
ExtractResultsB_noFlip(n, links_t) ==
    LET snaps == n.snapshots
        dflt == Zeros(Len(snaps))
    IN [t \in 1..Len(snaps) |->
           [index |-> snaps[t],
            chp_gas_in |-> Get(links_t.p0, "CHP", dflt)[t],
            chp_el_out |-> 0 - Get(links_t.p2, "CHP", dflt)[t],
            chp_heat_out |-> Get(links_t.p1, "CHP", dflt)[t],
            boiler_gas_in |-> Get(links_t.p0, "Boiler", dflt)[t],
            boiler_heat_out |-> 0 - Get(links_t.p1, "Boiler", dflt)[t]]]

ExtractResultsB(n, links_t) ==
    LET snaps == n.snapshots
        dflt == Zeros(Len(snaps))
    IN [t \in 1..Len(snaps) |->
           [index |-> snaps[t],
            chp_gas_in |-> Get(links_t.p0, "CHP", dflt)[t],
            chp_el_out |-> 0 - Get(links_t.p2, "CHP", dflt)[t],
            chp_heat_out |-> 0 - Get(links_t.p1, "CHP", dflt)[t],
            boiler_gas_in |-> Get(links_t.p0, "Boiler", dflt)[t],
            boiler_heat_out |-> 0 - Get(links_t.p1, "Boiler", dflt)[t]]]

\* solve(solver_name): create_model(); add_custom_constraints();
\* solve_model(solver_name), which raises when the solver is not installed;
\* _extract_results()
SolveCall(solver_name) ==
    /\ B_network # None
    /\ B_network.complete
    /\ B_calls < MaxCalls
    /\ B_calls' = B_calls + 1
    /\ LET m == AddCustomConstraints(CreateModel) IN
          /\ B_model' = m
          /\ IF solver_name \notin AvailableSolversB
                THEN /\ B_error' = "SolverError"
                     /\ UNCHANGED <<B_status, B_links_t, B_results>>
                ELSE /\ B_error' = "none"
                     /\ \E st \in SolveStatusesB(B_network, m) :
                           /\ B_status' = st
                           /\ IF st[1] = "ok"
                                 THEN \E y \in OptimalB(B_network, m) :
                                         B_links_t' = AssignSolution(B_network, y)
                                 ELSE B_links_t' = B_links_t
                     /\ B_results' = ExtractResultsB(B_network, B_links_t')
    /\ UNCHANGED <<B_network, B_ret>>

Solve ==
    /\ SolveCall(Lower(cfg.settings.solver))
    /\ UNCHANGED <<data, cfg>>
    /\ UNCHANGED varsA
    /\ UNCHANGED varsM

\* get_results(): return self.results
GetResults ==
    /\ B_ret' = B_results
    /\ UNCHANGED <<B_network, B_model, B_status, B_links_t, B_results, B_calls, B_error>>
    /\ UNCHANGED <<data, cfg>>
    /\ UNCHANGED varsA
    /\ UNCHANGED varsM

\* the two optimizer objects after construction
InitObjects ==
    /\ A_results = None
    /\ A_status = "NONE"
    /\ A_ret = None
    /\ A_calls = 0
    /\ A_solver = None
    /\ A_error = "none"
    /\ B_network = None
    /\ B_model = << >>
    /\ B_status = <<"none", "none">>
    /\ B_links_t = EmptyLinksT
    /\ B_results = None
    /\ B_ret = None
    /\ B_calls = 0
    /\ B_error = "none"

\* configuration and data loaded, both optimizers constructed, main() about
\* to run step 3
Init ==
    /\ cfg \in Configs
    /\ \E n \in 1..MaxT : data \in DataFrames(n)
    /\ InitObjects
    /\ pc = "ortools_optimize"
    /\ results_ortools = None
    /\ results_pypsa = None
    /\ comparison = None
    /\ ortools_error = "none"
    /\ pypsa_error = "none"

Next ==
    \/ Optimize
    \/ BuildModel
    \/ Solve
    \/ GetResults

Spec == Init /\ [][Next]_vars

\* Formulation A alone: the optimizer object under repeated optimize() calls
NextA == Optimize

SpecA == Init /\ [][NextA]_vars

\* Formulation B alone: build_model(), solve() and get_results()
NextB ==
    \/ BuildModel
    \/ Solve
    \/ GetResults

SpecB == Init /\ [][NextB]_vars

\* ------------------------------------------------------ compare_results
common_cols == <<"chp_gas_in", "chp_heat_out", "chp_el_out", "boiler_gas_in", "boiler_heat_out">>

\* df.columns of a table
Columns(df) == DOMAIN df[1] \ {"index"}

\* df[col].sum()
ColumnSum(df, col) == SumTo([t \in 1..Len(df) |-> df[t][col]], Len(df))

Abs(x) == IF x < 0 THEN 0 - x ELSE x

\* tolerance * 100 for the default tolerance 0.01
DefaultTolerancePct == 1

\* a percentage that does not vanish when ortools_sum is 0 and diff is not
DiffPct_zeroIsFull(diff, ortools_sum) ==
    IF ortools_sum # 0 THEN <<diff * 100, ortools_sum>> ELSE <<diff * 100, 1>>

\* diff / ortools_sum * 100 as the fraction <<numerator, denominator>>, and 0
\* when ortools_sum is 0
DiffPct(diff, ortools_sum) == IF ortools_sum # 0 THEN <<diff * 100, ortools_sum>> ELSE <<0, 1>>

\* a comparison that also accepts equality
LessThan_orEqual(q, k) == IF q[2] > 0 THEN q[1] <= k * q[2] ELSE q[1] >= k * q[2]

\* q < k for a fraction q and a whole number k
LessThan(q, k) == IF q[2] > 0 THEN q[1] < k * q[2] ELSE q[1] > k * q[2]

\* comparison[col]: one row of the transposed frame, under its index label
CompareRow(col, a, b, tolerance_pct) ==
    LET ortools_sum == ColumnSum(a, col)
        pypsa_sum == ColumnSum(b, col)
        diff == Abs(ortools_sum - pypsa_sum)
        diff_pct == DiffPct(diff, ortools_sum)
    IN  ("index" :> col) @@ ("OR-Tools Total" :> ortools_sum) @@ ("PyPSA Total" :> pypsa_sum)
          @@ ("Difference" :> diff) @@ ("Diff %" :> diff_pct)
          @@ ("Match" :> LessThan(diff_pct, tolerance_pct))

\* compare_results(results_ortools, results_pypsa, tolerance): the rows of
\* pd.DataFrame(comparison).T, in the order the metrics were inserted
compare_results(a, b, tolerance_pct) ==
    LET shared == SelectSeq(common_cols, LAMBDA col : col \in Columns(a) /\ col \in Columns(b))
    IN  [i \in 1..Len(shared) |-> CompareRow(shared[i], a, b, tolerance_pct)]

\* --------------------------------------------------------------- main()
NaN == "NaN"

\* df[col] aligned to the index label ix of another frame
AlignedValue(col, ix) ==
    IF \E t \in 1..T : data[t].index = ix
        THEN data[CHOOSE t \in 1..T : data[t].index = ix][col]
        ELSE NaN

\* results["heat_demand"] = df["demand_th"]; results["electricity_price"] =
\* df["price_el"]; results["gas_price"] = df["price_gas"]
AddInputColumns(results) ==
    [t \in 1..Len(results) |->
        [f \in DOMAIN results[t] \cup {"heat_demand", "electricity_price", "gas_price"} |->
            IF f = "heat_demand" THEN AlignedValue("demand_th", results[t].index)
            ELSE IF f = "electricity_price" THEN AlignedValue("price_el", results[t].index)
            ELSE IF f = "gas_price" THEN AlignedValue("price_gas", results[t].index)
            ELSE results[t][f]]]

\* a handler of step 3 that leaves main()
AfterOrtoolsHandler_return == "done"

\* where main() continues after the except handler of step 3
AfterOrtoolsHandler == "pypsa_build"

\* step 3, first half: ORToolsOptimizer(df, cfg).optimize()
MainOptimize ==
    /\ pc = "ortools_optimize"
    /\ OptimizeCall
    /\ IF A_error' # "none"
          THEN /\ results_ortools' = None
               /\ ortools_error' = A_error'
               /\ pc' = AfterOrtoolsHandler
          ELSE /\ results_ortools' = A_ret'
               /\ ortools_error' = "none"
               /\ pc' = IF A_ret' = None THEN "pypsa_build" ELSE "ortools_report"
    /\ UNCHANGED <<data, cfg>>
    /\ UNCHANGED varsB
    /\ UNCHANGED <<results_pypsa, comparison, pypsa_error>>

\* step 3, second half: the input columns are added to the returned frame
\* (which is optimizer.results itself), then CSV, KPIs and plots are written,
\* any of which may raise
MainReportOrtools ==
    /\ pc = "ortools_report"
    /\ LET r == AddInputColumns(results_ortools) IN
          /\ A_results' = r
          /\ A_ret' = r
          /\ \E written \in BOOLEAN :
                IF written
                    THEN /\ results_ortools' = r
                         /\ ortools_error' = "none"
                         /\ pc' = "pypsa_build"
                    ELSE /\ results_ortools' = None
                         /\ ortools_error' = "OSError"
                         /\ pc' = AfterOrtoolsHandler
    /\ UNCHANGED <<A_status, A_calls, A_solver, A_error>>
    /\ UNCHANGED <<data, cfg>>
    /\ UNCHANGED varsB
    /\ UNCHANGED <<results_pypsa, comparison, pypsa_error>>

\* step 4: PyPSAOptimizer(df, cfg).build_model(); plot_network(...)
MainBuildPypsa ==
    /\ pc = "pypsa_build"
    /\ BuildModelCall
    /\ \E plotted \in BOOLEAN :
          IF B_error' # "none"
              THEN /\ plotted
                   /\ pypsa_error' = B_error'
                   /\ pc' = "compare"
              ELSE IF plotted
                  THEN /\ pypsa_error' = "none"
                       /\ pc' = "pypsa_solve"
                  ELSE /\ pypsa_error' = "OSError"
                       /\ pc' = "compare"
    /\ results_pypsa' = None
    /\ UNCHANGED <<data, cfg>>
    /\ UNCHANGED varsA
    /\ UNCHANGED <<results_ortools, comparison, ortools_error>>

\* step 4: optimizer_pypsa.solve(solver_name=cfg["settings"].get("solver", "scip").lower())
MainSolvePypsa ==
    /\ pc = "pypsa_solve"
    /\ SolveCall(Lower(cfg.settings.solver))
    /\ pypsa_error' = B_error'
    /\ pc' = IF B_error' # "none" THEN "compare" ELSE "pypsa_report"
    /\ results_pypsa' = None
    /\ UNCHANGED <<data, cfg>>
    /\ UNCHANGED varsA
    /\ UNCHANGED <<results_ortools, comparison, ortools_error>>

\* step 4: results_pypsa = optimizer_pypsa.get_results(); the input columns
\* are added, then CSV, KPIs and plots are written, any of which may raise
MainReportPypsa ==
    /\ pc = "pypsa_report"
    /\ IF B_results = None
          THEN /\ results_pypsa' = None
               /\ B_ret' = None
               /\ UNCHANGED <<B_results, pypsa_error>>
          ELSE LET r == AddInputColumns(B_results) IN
               /\ B_results' = r
               /\ B_ret' = r
               /\ \E written \in BOOLEAN :
                     IF written
                         THEN /\ results_pypsa' = r
                              /\ pypsa_error' = "none"
                         ELSE /\ results_pypsa' = None
                              /\ pypsa_error' = "OSError"
    /\ pc' = "compare"
    /\ UNCHANGED <<B_network, B_model, B_status, B_links_t, B_calls, B_error>>
    /\ UNCHANGED <<data, cfg>>
    /\ UNCHANGED varsA
    /\ UNCHANGED <<results_ortools, comparison, ortools_error>>

\* step 5: compare_results when both results are there
MainCompare ==
    /\ pc = "compare"
    /\ IF results_ortools # None /\ results_pypsa # None
          THEN comparison' = compare_results(results_ortools, results_pypsa, DefaultTolerancePct)
          ELSE comparison' = comparison
    /\ pc' = "done"
    /\ UNCHANGED <<data, cfg>>
    /\ UNCHANGED varsA
    /\ UNCHANGED varsB
    /\ UNCHANGED <<results_ortools, results_pypsa, ortools_error, pypsa_error>>

\* main() from step 3 to its end
NextMain ==
    \/ MainOptimize
    \/ MainReportOrtools
    \/ MainBuildPypsa
    \/ MainSolvePypsa
    \/ MainReportPypsa
    \/ MainCompare

SpecMain == Init /\ [][NextMain]_vars

\* compare_results on its own: two result tables over the same horizon, with
\* all five metrics or with one of them left out
CompareValues == {0, 100, 101}

CompareColumnSets ==
    {{common_cols[i] : i \in 1..Len(common_cols)},
     {common_cols[i] : i \in 1..Len(common_cols)} \ {"chp_el_out"},
     {common_cols[i] : i \in 1..Len(common_cols)} \ {"boiler_heat_out"}}

CompareTables(n) ==
    {[t \in 1..n |->
        [f \in cols \cup {"index"} |->
            IF f = "index" THEN Timestamp(t)
            ELSE IF f \in {"boiler_gas_in", "boiler_heat_out"} THEN w ELSE v]] :
        cols \in CompareColumnSets, v \in CompareValues, w \in CompareValues}

InitCompare ==
    /\ cfg = MakeConfig(<<2, 1>>)
    /\ \E n \in 1..MaxT :
          /\ data = [t \in 1..n |-> [index |-> Timestamp(t), demand_th |-> 0,
                                     price_el |-> 0, price_gas |-> 1]]
          /\ results_ortools \in CompareTables(n)
          /\ results_pypsa \in CompareTables(n)
    /\ InitObjects
    /\ pc = "compare"
    /\ comparison = None
    /\ ortools_error = "none"
    /\ pypsa_error = "none"

NextCompare == MainCompare

SpecCompare == InitCompare /\ [][NextCompare]_vars


\* ================================================================ claims
\* combined maximum thermal output of the CHP and the boiler
Capacity == (cfg.chp.eta_th * cfg.chp.p_gas_max) + (cfg.boiler.eta_th * cfg.boiler.p_gas_max)

OverCapacityAt(t) == data[t].demand_th > Capacity

\* C1: in every result returned by Formulation A, at every time step,
\* eta_th_chp * chp_gas_in + eta_th_boiler * boiler_gas_in equals heat_demand
C1_HeatBalanceExact ==
    A_ret # None =>
        \A t \in 1..T :
            (cfg.chp.eta_th * A_ret[t].chp_gas_in)
              + (cfg.boiler.eta_th * A_ret[t].boiler_gas_in) = data[t].demand_th

C1_Witness ==
    /\ A_ret # None
    /\ \E t \in 1..T : A_ret[t].chp_gas_in > 0 /\ A_ret[t].boiler_gas_in > 0

\* C2: when the demand of a single step exceeds the combined capacity, the
\* solve of Formulation A is not optimal and optimize() yields no result,
\* whatever the other steps are
C2_OverCapacityNoResult ==
    ((\E t \in 1..T : OverCapacityAt(t)) /\ A_calls > 0) =>
        (A_status # "OPTIMAL" /\ A_ret = None)

C2_Witness ==
    /\ T = 2
    /\ OverCapacityAt(1)
    /\ data[2].demand_th > 0
    /\ data[2].demand_th <= cfg.boiler.eta_th * cfg.boiler.p_gas_max
    /\ A_calls > 0
    /\ A_status = "INFEASIBLE"
    /\ A_ret = None

\* C3: every optimize() call whose solve ends with a status other than
\* OPTIMAL yields None, also when it follows an optimal call
C3_NonOptimalYieldsNone ==
    (A_calls > 0 /\ A_status # "OPTIMAL") => A_ret = None

\* C4: when the demand exceeds the combined capacity at every step,
\* Formulation B hands no result table to the caller of get_results()
C4_OverCapacityNoTableB ==
    (\A t \in 1..T : OverCapacityAt(t)) => B_ret = None

\* C5: in every result returned by Formulation A, chp_status = 0 at a step
\* implies chp_gas_in = 0 at that step
C5_OffMeansNoGas ==
    A_ret # None =>
        \A t \in 1..T : A_ret[t].chp_status = 0 => A_ret[t].chp_gas_in = 0

C5_Witness ==
    /\ A_ret # None
    /\ \E t \in 1..T : A_ret[t].chp_status = 0 /\ A_ret[t].boiler_gas_in > 0
    /\ \E t \in 1..T : A_ret[t].chp_status = 1

\* C6: in every result returned by Formulation A, chp_status = 1 at a step
\* implies p_gas_min <= chp_gas_in <= p_gas_max at that step
C6_OnWithinBand ==
    A_ret # None =>
        \A t \in 1..T :
            A_ret[t].chp_status = 1 =>
                /\ cfg.chp.p_gas_min <= A_ret[t].chp_gas_in
                /\ A_ret[t].chp_gas_in <= cfg.chp.p_gas_max

C6_Witness ==
    /\ A_ret # None
    /\ cfg.chp.p_gas_min > 0
    /\ cfg.chp.p_gas_min < cfg.chp.p_gas_max
    /\ \E t \in 1..T : A_ret[t].chp_status = 1 /\ A_ret[t].chp_gas_in = cfg.chp.p_gas_min
    /\ \E t \in 1..T : A_ret[t].chp_status = 1 /\ A_ret[t].chp_gas_in = cfg.chp.p_gas_max

\* the profit of a dispatch as the specification writes it
StatedGasCostTotal(t) == data[t].price_gas + (cfg.data.co2_price * cfg.economics.co2_intensity_gas)

\* profit of one step's row: chp_gas_in and boiler_gas_in at step t
StatedStepProfit(t, row) ==
    (((data[t].price_el * cfg.chp.eta_el) - StatedGasCostTotal(t)
         - cfg.chp.marginal_cost) * row.chp_gas_in)
  - ((StatedGasCostTotal(t) + cfg.boiler.marginal_cost) * row.boiler_gas_in)

StatedProfit(r) == SumTo([t \in 1..T |-> StatedStepProfit(t, r[t])], T)

\* the assignments of one step that satisfy the variable bounds, the
\* commitment coupling and the heat balance
StatedFeasibleStep(t) ==
    {r \in [chp_gas_in : 0..cfg.chp.p_gas_max, chp_status : 0..1,
            boiler_gas_in : 0..cfg.boiler.p_gas_max] :
        /\ r.chp_gas_in <= cfg.chp.p_gas_max * r.chp_status
        /\ r.chp_gas_in >= cfg.chp.p_gas_min * r.chp_status
        /\ (cfg.chp.eta_th * r.chp_gas_in) + (cfg.boiler.eta_th * r.boiler_gas_in)
               = data[t].demand_th}

RECURSIVE StatedFeasibleUpTo(_)
StatedFeasibleUpTo(n) ==
    IF n = 0 THEN {<< >>}
    ELSE {Append(r, s) : r \in StatedFeasibleUpTo(n - 1), s \in StatedFeasibleStep(n)}

\* C7: no assignment satisfying the bounds, the commitment coupling and the
\* heat balance has a strictly higher profit than the dispatch returned by
\* Formulation A
C7_ProfitMaximal ==
    A_ret # None =>
        \A r \in StatedFeasibleUpTo(T) : StatedProfit(r) <= StatedProfit(A_ret)

C7_Witness ==
    /\ A_ret # None
    /\ T >= 2
    /\ \A t \in 1..T :
          \E s \in StatedFeasibleStep(t) :
              s.chp_gas_in # A_ret[t].chp_gas_in
    /\ \E r \in StatedFeasibleUpTo(T) : StatedProfit(r) < StatedProfit(A_ret)

\* C8: in every dispatch of a successful Formulation B solve, at every time
\* step, chp_gas_in >= boiler_gas_in
C8_ChpGeqBoiler ==
    (B_status[1] = "ok" /\ B_results # None) =>
        \A t \in 1..Len(B_results) : B_results[t].chp_gas_in >= B_results[t].boiler_gas_in

\* the constraint binds: a dispatch with more boiler gas than CHP gas meets
\* the bounds, the commitment coupling and the heat balance at a higher profit
C8_Witness ==
    /\ B_status[1] = "ok"
    /\ B_results # None
    /\ \E t \in 1..Len(B_results) :
          \E s \in StatedFeasibleStep(t) :
              /\ s.chp_gas_in < s.boiler_gas_in
              /\ StatedStepProfit(t, s) > StatedStepProfit(t, B_results[t])

\* C9: the chp_heat_out, chp_el_out and boiler_heat_out extracted by
\* Formulation B are non-negative, each the negation of the non-positive
\* flow p1 or p2 of the backend, and the gas inputs are the flow p0 as it is
C9_SignNormalized ==
    B_results # None =>
        \A t \in 1..Len(B_results) :
            /\ B_results[t].chp_heat_out >= 0
            /\ B_results[t].chp_el_out >= 0
            /\ B_results[t].boiler_heat_out >= 0
            /\ "CHP" \in DOMAIN B_links_t.p0 =>
                  /\ B_links_t.p1["CHP"][t] <= 0
                  /\ B_links_t.p2["CHP"][t] <= 0
                  /\ B_links_t.p1["Boiler"][t] <= 0
                  /\ B_results[t].chp_heat_out = 0 - B_links_t.p1["CHP"][t]
                  /\ B_results[t].chp_el_out = 0 - B_links_t.p2["CHP"][t]
                  /\ B_results[t].boiler_heat_out = 0 - B_links_t.p1["Boiler"][t]
                  /\ B_results[t].chp_gas_in = B_links_t.p0["CHP"][t]
                  /\ B_results[t].boiler_gas_in = B_links_t.p0["Boiler"][t]

C9_Witness ==
    /\ B_results # None
    /\ "CHP" \in DOMAIN B_links_t.p0
    /\ \E t \in 1..Len(B_results) :
          /\ B_links_t.p1["CHP"][t] < 0
          /\ B_links_t.p2["CHP"][t] < 0
          /\ B_links_t.p1["Boiler"][t] < 0

\* C10: at every time step of every result table that either formulation
\* hands to its caller, chp_heat_out + boiler_heat_out equals heat_demand
C10_ReportedHeatMeetsDemand ==
    /\ A_ret # None =>
          \A t \in 1..T : A_ret[t].chp_heat_out + A_ret[t].boiler_heat_out = data[t].demand_th
    /\ B_ret # None =>
          \A t \in 1..T : B_ret[t].chp_heat_out + B_ret[t].boiler_heat_out = data[t].demand_th

\* C15: when the solver output of Formulation B has no flow for the CHP or the
\* Boiler in p0, p1 or p2, extraction does not fail; the column of that flow
\* is 0 at every time step and the other columns are the recorded flows
\* (stated of the network that solve() has just solved)
C15_AbsentFlowDefaultsToZero ==
    (B_calls > 0 /\ B_error = "none" /\ B_model # << >>) =>
        /\ B_results # None
        /\ Len(B_results) = T
        /\ \A t \in 1..T :
              /\ B_results[t].chp_gas_in =
                    IF "CHP" \in DOMAIN B_links_t.p0 THEN B_links_t.p0["CHP"][t] ELSE 0
              /\ B_results[t].boiler_gas_in =
                    IF "Boiler" \in DOMAIN B_links_t.p0 THEN B_links_t.p0["Boiler"][t] ELSE 0
              /\ B_results[t].chp_heat_out =
                    IF "CHP" \in DOMAIN B_links_t.p1 THEN 0 - B_links_t.p1["CHP"][t] ELSE 0
              /\ B_results[t].boiler_heat_out =
                    IF "Boiler" \in DOMAIN B_links_t.p1 THEN 0 - B_links_t.p1["Boiler"][t] ELSE 0
              /\ B_results[t].chp_el_out =
                    IF "CHP" \in DOMAIN B_links_t.p2 THEN 0 - B_links_t.p2["CHP"][t] ELSE 0

C15_Witness ==
    /\ B_calls > 0
    /\ B_error = "none"
    /\ B_model # << >>
    /\ "CHP" \notin DOMAIN B_links_t.p0
    /\ "Boiler" \notin DOMAIN B_links_t.p1
    /\ B_results # None
    /\ \E t \in 1..T : data[t].demand_th > 0 /\ B_results[t].boiler_heat_out = 0

\* C16: when the solver named in settings.solver is unavailable, optimize()
\* of Formulation A fails with a ValueError before any variable or constraint
\* exists, no solve is run and no result is produced
C16_SolverUnavailableIsFatal ==
    (cfg.settings.solver \notin AvailableSolversA /\ A_calls > 0) =>
        /\ A_error = "ValueError"
        /\ A_solver = None
        /\ A_status = "NONE"
        /\ A_results = None
        /\ A_ret = None

C16_Witness ==
    /\ cfg.settings.solver \notin AvailableSolversA
    /\ A_calls = MaxCalls
    /\ A_error = "ValueError"

\* a required parameter is missing from the configuration
ConfigIncomplete ==
    \/ cfg.chp.p_gas_max = Missing
    \/ cfg.chp.p_gas_min = Missing
    \/ cfg.chp.eta_el = Missing
    \/ cfg.chp.eta_th = Missing
    \/ cfg.chp.marginal_cost = Missing
    \/ cfg.boiler.p_gas_max = Missing
    \/ cfg.boiler.eta_th = Missing
    \/ cfg.boiler.marginal_cost = Missing
    \/ cfg.economics.co2_intensity_gas = Missing
    \/ cfg.data.co2_price = Missing

\* C17: with a required parameter missing, each formulation fails with an
\* error before any solve; no model is solved and no result is produced
C17_MissingParameterRejected ==
    ConfigIncomplete =>
        /\ A_status = "NONE" /\ A_results = None
        /\ A_calls > 0 => A_error = "KeyError"
        /\ B_status = <<"none", "none">> /\ B_results = None
        /\ B_network # None => B_error = "KeyError"

\* what the caller of optimize() sees of an infeasible solve: None is
\* returned and nothing is raised
InfeasibleOutcomeA == <<None, "none">>

\* what the caller of solve() finds after an infeasible solve of a fresh
\* network: the table of zeros and nothing raised
InfeasibleOutcomeB ==
    <<[t \in 1..T |-> [index |-> data[t].index, chp_gas_in |-> 0, chp_el_out |-> 0,
                      chp_heat_out |-> 0, boiler_gas_in |-> 0, boiler_heat_out |-> 0]],
      "none">>

\* C18: a solve that ends non-optimal for another reason than infeasibility
\* reaches the caller as something else than what an infeasible solve gives
C18_NonOptimalDistinctFromInfeasible ==
    /\ (A_calls = 1 /\ A_error = "none" /\ A_status = "ABNORMAL") =>
          <<A_ret, A_error>> # InfeasibleOutcomeA
    /\ (B_calls = 1 /\ B_error = "none" /\ B_status = <<"warning", "time_limit">>) =>
          <<B_results, B_error>> # InfeasibleOutcomeB

ResultFields ==
    {"chp_gas_in", "chp_el_out", "chp_heat_out", "chp_status", "boiler_gas_in", "boiler_heat_out"}

\* a table maps every timestamp of the horizon to the six fields, each >= 0
IsDispatchResult(r) ==
    /\ Len(r) = T
    /\ \A t \in 1..T :
          /\ r[t].index = data[t].index
          /\ \A f \in ResultFields : f \in DOMAIN r[t] /\ r[t][f] >= 0

\* C19: the result table of either formulation maps every timestamp of the
\* horizon to the six fields chp_gas_in, chp_el_out, chp_heat_out,
\* chp_status, boiler_gas_in, boiler_heat_out, each non-negative
C19_SixNonNegativeFields ==
    /\ A_ret # None => IsDispatchResult(A_ret)
    /\ B_ret # None => IsDispatchResult(B_ret)

\* a step of Formulation B in main() leaves the result, the caught exception
\* and the optimizer of Formulation A as they are
PypsaStepKeepsOrtools ==
    pc \in {"pypsa_build", "pypsa_solve", "pypsa_report"} =>
        (results_ortools' = results_ortools /\ ortools_error' = ortools_error /\ varsA' = varsA)

\* once step 4 is over, B has been built, and unless B itself raised it has
\* been solved once and its table is the result
PypsaWentThrough ==
    pc \in {"compare", "done"} =>
        /\ B_network # None
        /\ pypsa_error = "none" =>
              (B_calls = 1 /\ results_pypsa # None /\ results_pypsa = B_results)

\* C11: in main() a failure of Formulation A never keeps Formulation B from
\* being built, solved and extracted, and no step of Formulation B changes
\* or discards the result of Formulation A
C11_FailuresAreLocal == []PypsaWentThrough /\ [][PypsaStepKeepsOrtools]_vars

\* Formulation A failed, Formulation B went through and found a dispatch
C11_Witness ==
    /\ pc = "done"
    /\ ortools_error # "none"
    /\ results_ortools = None
    /\ pypsa_error = "none"
    /\ B_status[1] = "ok"
    /\ results_pypsa # None

\* main() compared two optimal dispatches
BothOptimal ==
    /\ pc = "done"
    /\ comparison # None
    /\ A_status = "OPTIMAL"
    /\ B_status[1] = "ok"

\* the extra constraint of Formulation B does not bind: the dispatch of
\* Formulation A satisfies chp_gas_in >= boiler_gas_in at every time step
NotBinding == \A t \in 1..T : results_ortools[t].chp_gas_in >= results_ortools[t].boiler_gas_in

AllMatch == \A i \in 1..Len(comparison) : comparison[i]["Match"]

\* no other assignment that satisfies the constraints of Formulation A
\* attains the profit of its dispatch with other gas inputs
UniqueOptimum ==
    \A r \in StatedFeasibleUpTo(T) :
        StatedProfit(r) = StatedProfit(results_ortools) =>
            \A t \in 1..T : /\ r[t].chp_gas_in = results_ortools[t].chp_gas_in
                            /\ r[t].boiler_gas_in = results_ortools[t].boiler_gas_in

\* C12 as stated: when both formulations solve to optimality and the
\* CHP >= Boiler constraint is not binding, compare_results flags all five
\* metrics as matching
C12_AllMatchWhenNotBinding == (BothOptimal /\ NotBinding) => AllMatch

\* C12 amended: when both formulations solve to optimality, the CHP >= Boiler
\* constraint is not binding and the optimal dispatch of Formulation A is
\* the only one, the five totals agree and compare_results flags all five
\* metrics as matching
C12_AllMatchWhenUnique ==
    (BothOptimal /\ NotBinding /\ UniqueOptimum) =>
        /\ Len(comparison) = Len(common_cols)
        /\ AllMatch
        /\ \A i \in 1..Len(comparison) : comparison[i]["Difference"] = 0

C12_Witness ==
    /\ BothOptimal
    /\ NotBinding
    /\ UniqueOptimum
    /\ T >= 2
    /\ \E t \in 1..T : results_ortools[t].boiler_gas_in > 0
    /\ \E t \in 1..T : results_ortools[t].chp_gas_in > results_ortools[t].boiler_gas_in

\* the assignments that satisfy the constraints of Formulation A and the
\* extra constraint chp_gas_in >= boiler_gas_in
StatedRestricted ==
    {r \in StatedFeasibleUpTo(T) : \A t \in 1..T : r[t].chp_gas_in >= r[t].boiler_gas_in}

\* C13: for every instance with a complete configuration, a successful
\* solve of Formulation B gives a dispatch whose profit, by the objective of
\* Formulation A, is the maximum over the assignments that satisfy the
\* constraints of Formulation A and chp_gas_in >= boiler_gas_in; B is
\* reported infeasible only when there is no such assignment and solved only
\* when there is one
C13_SameProblemPlusConstraint ==
    (~ConfigIncomplete /\ B_calls > 0 /\ B_error = "none" /\ B_model # << >>) =>
        /\ B_status[1] = "ok" =>
              /\ \E r \in StatedRestricted :
                    /\ StatedProfit(r) = StatedProfit(B_results)
                    /\ \A t \in 1..T : /\ r[t].chp_gas_in = B_results[t].chp_gas_in
                                       /\ r[t].boiler_gas_in = B_results[t].boiler_gas_in
              /\ \A r \in StatedRestricted : StatedProfit(r) <= StatedProfit(B_results)
        /\ B_status = <<"warning", "infeasible">> => StatedRestricted = {}
        /\ StatedRestricted = {} => B_status[1] # "ok"

\* B solved an instance on which the extra constraint excludes an assignment
\* of higher profit, and its dispatch uses the boiler
C13_Witness ==
    /\ ~ConfigIncomplete
    /\ B_calls > 0
    /\ B_error = "none"
    /\ B_model # << >>
    /\ B_status[1] = "ok"
    /\ T >= 2
    /\ \E r \in StatedFeasibleUpTo(T) \ StatedRestricted :
          StatedProfit(r) > StatedProfit(B_results)
    /\ \E t \in 1..T : B_results[t].boiler_gas_in > 0

\* the horizon total of a metric
StatedTotal(df, col) == SumTo([t \in 1..Len(df) |-> df[t][col]], Len(df))

\* the row compare_results is to give for a metric of both tables
StatedRow(row, col) ==
    LET a == StatedTotal(results_ortools, col)
        b == StatedTotal(results_pypsa, col)
        d == IF a >= b THEN a - b ELSE b - a
        pct == row["Diff %"]
    IN  /\ row["OR-Tools Total"] = a
        /\ row["PyPSA Total"] = b
        /\ row["Difference"] = d
        /\ pct[2] > 0
        /\ IF a # 0 THEN pct[1] * a = d * 100 * pct[2] ELSE pct[1] = 0
        /\ row["Match"] = (pct[1] < pct[2])

\* C14: compare_results gives, for each of the five metrics present in both
\* tables, one row with the total of Formulation A, the total of Formulation
\* B, their absolute difference, the percentage difference (relative to the
\* total of Formulation A, 0 when that total is 0) and a match flag that is
\* true exactly when the percentage difference is below 1; a metric missing
\* from either table has no row
C14_ComparisonRows ==
    pc = "done" =>
        \A k \in 1..Len(common_cols) :
            LET col == common_cols[k]
                rows == {i \in 1..Len(comparison) : comparison[i].index = col}
            IN  IF col \in DOMAIN results_ortools[1] /\ col \in DOMAIN results_pypsa[1]
                    THEN /\ Cardinality(rows) = 1
                         /\ \A i \in rows : StatedRow(comparison[i], col)
                    ELSE rows = {}

\* a metric is missing from one table, one metric matches, one does not, and
\* one has a percentage difference of exactly 1
C14_Witness ==
    /\ pc = "done"
    /\ DOMAIN results_ortools[1] # DOMAIN results_pypsa[1]
    /\ \E i \in 1..Len(comparison) : comparison[i]["Match"]
    /\ \E i \in 1..Len(comparison) :
          /\ ~comparison[i]["Match"]
          /\ comparison[i]["Diff %"][1] = comparison[i]["Diff %"][2]

\* a table has one row per time step of the horizon, in order, each under
\* the timestamp of the input row
IndexedByHorizon(df) == Len(df) = T /\ \A t \in 1..T : df[t].index = data[t].index

\* C20 as stated: the result table of each formulation and the difference
\* table of the comparator are indexed by the timestamp sequence of the
\* input horizon
C20_AllIndexedByHorizon ==
    /\ results_ortools # None => IndexedByHorizon(results_ortools)
    /\ results_pypsa # None => IndexedByHorizon(results_pypsa)
    /\ comparison # None => IndexedByHorizon(comparison)

\* C20 amended: the result table of each formulation is indexed by the
\* timestamp sequence of the input horizon; the difference table of the
\* comparator has one row per shared metric, indexed by the metric's name
C20_ResultsIndexedByHorizon ==
    /\ results_ortools # None => IndexedByHorizon(results_ortools)
    /\ results_pypsa # None => IndexedByHorizon(results_pypsa)
    /\ comparison # None =>
          /\ Len(comparison) = Len(common_cols)
          /\ \A i \in 1..Len(comparison) : comparison[i].index = common_cols[i]

C20_Witness ==
    /\ pc = "done"
    /\ T >= 2
    /\ results_ortools # None
    /\ results_pypsa # None
    /\ comparison # None
    /\ \E t \in 1..T : results_ortools[t].chp_gas_in # results_pypsa[t].chp_gas_in

\* the CHP profit coefficient as the specification writes it
StatedCoeffChp(t) ==
    (data[t].price_el * cfg.chp.eta_el) - StatedGasCostTotal(t) - cfg.chp.marginal_cost

Min(a, b) == IF a <= b THEN a ELSE b

\* min(p_gas_max_chp, heat_demand[t] / eta_th_chp)
StatedChpAtProfit(t) == Min(cfg.chp.p_gas_max, data[t].demand_th \div cfg.chp.eta_th)

\* C23 as stated: at every time step of a feasible instance where the CHP
\* profit coefficient is positive, the dispatch of Formulation A has
\* chp_status = 1 and chp_gas_in = min(p_gas_max_chp, heat_demand / eta_th_chp)
C23_ChpPinnedWhenProfitable ==
    A_ret # None =>
        \A t \in 1..T :
            StatedCoeffChp(t) > 0 =>
                /\ A_ret[t].chp_status = 1
                /\ A_ret[t].chp_gas_in = StatedChpAtProfit(t)

\* C23 amended: at every time step of a feasible instance where the CHP
\* profit coefficient is positive, the boiler's cost per unit of gas is not
\* negative and the heat demand is at least eta_th_chp * p_gas_min_chp,
\* chp_gas_in = min(p_gas_max_chp, heat_demand / eta_th_chp), and
\* chp_status = 1 when moreover the heat demand is positive; where the heat
\* demand is below eta_th_chp * p_gas_min_chp the CHP is off
C23_ChpPinnedWhenReachable ==
    A_ret # None =>
        \A t \in 1..T :
            (StatedCoeffChp(t) > 0 /\ StatedGasCostTotal(t) + cfg.boiler.marginal_cost >= 0) =>
                IF data[t].demand_th >= cfg.chp.eta_th * cfg.chp.p_gas_min
                    THEN /\ A_ret[t].chp_gas_in = StatedChpAtProfit(t)
                         /\ data[t].demand_th > 0 => A_ret[t].chp_status = 1
                    ELSE A_ret[t].chp_gas_in = 0 /\ A_ret[t].chp_status = 0

\* one profitable step pins the CHP at p_gas_max with the boiler covering the
\* rest, another one is limited by the heat demand
C23_Witness ==
    /\ A_ret # None
    /\ T >= 2
    /\ \E t \in 1..T :
          /\ StatedCoeffChp(t) > 0
          /\ A_ret[t].chp_gas_in = cfg.chp.p_gas_max
          /\ A_ret[t].boiler_gas_in > 0
    /\ \E t \in 1..T :
          /\ StatedCoeffChp(t) > 0
          /\ A_ret[t].chp_gas_in > 0
          /\ A_ret[t].chp_gas_in < cfg.chp.p_gas_max

\* ------------------------------------------------------------------- C27
\* the stated condition on the heat demand of step t: the boiler alone can
\* meet it, or the running CHP together with the boiler can
StatedDemandReachable(t) ==
    \/ /\ 0 <= data[t].demand_th
       /\ data[t].demand_th <= cfg.boiler.eta_th * cfg.boiler.p_gas_max
    \/ /\ cfg.chp.eta_th * cfg.chp.p_gas_min <= data[t].demand_th
       /\ data[t].demand_th <=
              (cfg.chp.eta_th * cfg.chp.p_gas_max) + (cfg.boiler.eta_th * cfg.boiler.p_gas_max)

\* the heat demand of step t lies in the gap between the boiler's capacity and
\* the CHP's minimum heat, although within the combined capacity
StatedDemandInGap(t) ==
    /\ cfg.boiler.eta_th * cfg.boiler.p_gas_max < data[t].demand_th
    /\ data[t].demand_th < cfg.chp.eta_th * cfg.chp.p_gas_min
    /\ data[t].demand_th <=
           (cfg.chp.eta_th * cfg.chp.p_gas_max) + (cfg.boiler.eta_th * cfg.boiler.p_gas_max)

\* C27: Formulation A is feasible exactly when every step's heat demand is
\* within the boiler's capacity or between the CHP's minimum heat and the
\* combined capacity: a solve that reports OPTIMAL has the condition at every
\* step, a solve that reports INFEASIBLE has a step without it, and a step in
\* the gap between the boiler's capacity and the CHP's minimum heat makes the
\* horizon infeasible
C27_FeasibleExactlyWhenReachable ==
    (A_calls > 0 /\ A_error = "none") =>
        /\ A_status = "OPTIMAL" => \A t \in 1..T : StatedDemandReachable(t)
        /\ A_status = "INFEASIBLE" => \E t \in 1..T : ~StatedDemandReachable(t)
        /\ (\E t \in 1..T : StatedDemandInGap(t)) => A_status # "OPTIMAL"

C27_Witness ==
    /\ A_calls > 0
    /\ A_error = "none"
    /\ A_status = "INFEASIBLE"
    /\ \E t \in 1..T : StatedDemandInGap(t)
    /\ \A t \in 1..T :
           data[t].demand_th <=
               (cfg.chp.eta_th * cfg.chp.p_gas_max) + (cfg.boiler.eta_th * cfg.boiler.p_gas_max)


StatusFreeWhenMinZero ==
    /\ A_ret # None
    /\ A_error = "none"
    /\ cfg.chp.p_gas_min = 0
    /\ \E t \in 1..T : A_ret[t].chp_status = 1 /\ A_ret[t].chp_gas_in = 0


\* ------------------------------------------------------------------- C29
\* the single-step problem for the input row d: its feasible assignments and
\* the profit of an assignment
StatedFeasibleFor(d) ==
    {r \in [chp_gas_in : 0..cfg.chp.p_gas_max, chp_status : 0..1,
            boiler_gas_in : 0..cfg.boiler.p_gas_max] :
        /\ r.chp_gas_in <= cfg.chp.p_gas_max * r.chp_status
        /\ r.chp_gas_in >= cfg.chp.p_gas_min * r.chp_status
        /\ (cfg.chp.eta_th * r.chp_gas_in) + (cfg.boiler.eta_th * r.boiler_gas_in)
               = d.demand_th}

StatedProfitFor(d, r) ==
    (((d.price_el * cfg.chp.eta_el)
         - (d.price_gas + (cfg.data.co2_price * cfg.economics.co2_intensity_gas))
         - cfg.chp.marginal_cost) * r.chp_gas_in)
  - (((d.price_gas + (cfg.data.co2_price * cfg.economics.co2_intensity_gas))
         + cfg.boiler.marginal_cost) * r.boiler_gas_in)

\* the optimal profit of the single-step problem for d (d feasible)
StatedOptimumFor(d) ==
    LET best == CHOOSE r \in StatedFeasibleFor(d) :
                    \A s \in StatedFeasibleFor(d) : StatedProfitFor(d, s) <= StatedProfitFor(d, r)
    IN  StatedProfitFor(d, best)

\* the decision variables of a result row
Decision(row) ==
    [chp_gas_in |-> row.chp_gas_in, chp_status |-> row.chp_status,
     boiler_gas_in |-> row.boiler_gas_in]

\* the horizon problem for an input of n rows: feasible assignments, profit
RECURSIVE StatedFeasibleHorizon(_, _)
StatedFeasibleHorizon(input, n) ==
    IF n = 0 THEN {<< >>}
    ELSE {Append(x, r) : x \in StatedFeasibleHorizon(input, n - 1),
                         r \in StatedFeasibleFor(input[n])}

StatedHorizonProfit(input, x) ==
    SumTo([t \in 1..Len(input) |-> StatedProfitFor(input[t], x[t])], Len(input))

StepOrders(n) == {p \in [1..n -> 1..n] : \A i, j \in 1..n : p[i] = p[j] => i = j}

\* the dispatch x, reordered by p, is an optimal dispatch of the input
\* reordered by p
PermutedIsOptimal(x, p) ==
    LET input == [t \in 1..T |-> data[p[t]]]
        y == [t \in 1..T |-> Decision(x[p[t]])]
    IN  /\ y \in StatedFeasibleHorizon(input, T)
        /\ \A z \in StatedFeasibleHorizon(input, T) :
               StatedHorizonProfit(input, z) <= StatedHorizonProfit(input, y)

\* C29: the time steps of Formulation A are independent: the profit of the
\* returned dispatch is the sum of the single-step optimal profits, a solve
\* reports OPTIMAL only if every single-step problem is feasible and
\* INFEASIBLE only if some single-step problem is not, and reordering the
\* steps of the input and of the returned dispatch by the same permutation
\* gives an optimal dispatch of the reordered input
C29_StepsAreIndependent ==
    (A_calls > 0 /\ A_error = "none") =>
        /\ A_status = "OPTIMAL" => \A t \in 1..T : StatedFeasibleFor(data[t]) # {}
        /\ A_status = "INFEASIBLE" => \E t \in 1..T : StatedFeasibleFor(data[t]) = {}
        /\ A_ret # None =>
               /\ StatedHorizonProfit(data, [t \in 1..T |-> Decision(A_ret[t])])
                      = SumTo([t \in 1..T |-> StatedOptimumFor(data[t])], T)
               /\ \A p \in StepOrders(T) : PermutedIsOptimal(A_ret, p)

\* a dispatch over two steps with different single-step optima (CHP off at
\* one step, on at a later one), and with different input rows
C29_Witness ==
    /\ A_ret # None
    /\ A_error = "none"
    /\ T >= 2
    /\ \E t \in 1..T : t < T /\ A_ret[t].chp_status = 0 /\ A_ret[t + 1].chp_status = 1
    /\ \E t \in 1..T : \E u \in 1..T : data[t].demand_th # data[u].demand_th


\* ------------------------------------------------------------------- C26
\* the most heat Formulation B can deliver at a step: boiler_gas_in <=
\* chp_gas_in <= p_gas_max_chp
StatedHeatLimitB == (cfg.chp.eta_th + cfg.boiler.eta_th) * cfg.chp.p_gas_max

\* C26: when a solve of Formulation B finds a dispatch, the heat demand of
\* every step is at most (eta_th_chp + eta_th_boiler) * p_gas_max_chp
C26_FeasibleOnlyWithinChpLimit ==
    (B_calls > 0 /\ B_error = "none" /\ B_model # << >> /\ ~ConfigIncomplete
         /\ B_status[1] = "ok") =>
        \A t \in 1..T : data[t].demand_th <= StatedHeatLimitB

\* an instance that is feasible for Formulation A, with every demand within
\* the combined installed capacity, and reported infeasible by Formulation B
\* because a demand exceeds the limit
C26_Witness ==
    /\ B_calls > 0
    /\ B_error = "none"
    /\ B_model # << >>
    /\ ~ConfigIncomplete
    /\ B_status = <<"warning", "infeasible">>
    /\ \A t \in 1..T : StatedFeasibleFor(data[t]) # {}
    /\ \A t \in 1..T :
           data[t].demand_th <=
               (cfg.chp.eta_th * cfg.chp.p_gas_max) + (cfg.boiler.eta_th * cfg.boiler.p_gas_max)
    /\ \E t \in 1..T : data[t].demand_th > StatedHeatLimitB


\* ------------------------------------------------------------------- C24
\* how many times the custom constraint occurs in the model m
CustomConstraintCount(m) ==
    Cardinality({i \in 1..Len(m) : m[i] = "CHP_gas_geq_Boiler_gas"})

\* one call of solve(): the model handed to the backend is a freshly
\* assembled one with the custom constraint added once; when the backend ran,
\* the table is extracted from the flows it left, and a dispatch it found
\* obeys the custom constraint; when the backend raised, nothing is extracted
SolveStepInOrder ==
    B_calls' # B_calls =>
        /\ CustomConstraintCount(B_model') = 1
        /\ B_error' = "none" =>
               /\ B_results' = ExtractResultsB(B_network', B_links_t')
               /\ B_status'[1] = "ok" =>
                      \A t \in 1..T :
                          B_results'[t].chp_gas_in >= B_results'[t].boiler_gas_in
        /\ B_error' # "none" => B_results' = B_results /\ B_links_t' = B_links_t

\* C24: every call of PyPSAOptimizer.solve assembles the model, adds the
\* CHP >= Boiler constraint, runs the backend and then extracts: the solved
\* model holds the custom constraint exactly once and the extracted table is
\* taken from the flows the backend left
C24_SolveInOrder == [][SolveStepInOrder]_vars

\* a second solve on the same network that found a dispatch
C24_Witness ==
    /\ B_calls >= 2
    /\ B_error = "none"
    /\ B_status[1] = "ok"
    /\ CustomConstraintCount(B_model) = 1
    /\ B_results # None
    /\ \E t \in 1..T : B_results[t].boiler_gas_in > 0


\* ------------------------------------------------------------------- C25
\* C25: in main() a comparison table exists only once both formulations have
\* finished, and only when neither failed and each found an optimal dispatch
\* for the horizon
C25_CompareOnlyWhenBothFound ==
    comparison # None =>
        /\ pc = "done"
        /\ ortools_error = "none"
        /\ A_status = "OPTIMAL"
        /\ pypsa_error = "none"
        /\ B_status[1] = "ok"


\* ------------------------------------------------------------------- C30
\* the comparison row of a metric when the two tables are handed over in the
\* other order
SwappedRow(col) ==
    LET swapped == compare_results(results_pypsa, results_ortools, DefaultTolerancePct)
    IN  swapped[CHOOSE i \in 1..Len(swapped) : swapped[i].index = col]

\* C30: in every row of the comparison the percentage difference is
\* |totalA - totalB| / totalA * 100 when Formulation A's total is not 0; when
\* it is 0 the percentage is 0 and the match flag is true, whatever
\* Formulation B's total is
C30_PercentageRelativeToA ==
    pc = "done" =>
        \A i \in 1..Len(comparison) :
            LET totalA == comparison[i]["OR-Tools Total"]
                totalB == comparison[i]["PyPSA Total"]
                pct == comparison[i]["Diff %"]
            IN  IF totalA # 0
                    THEN pct[1] * totalA = Abs(totalA - totalB) * 100 * pct[2]
                    ELSE pct[1] = 0 /\ comparison[i]["Match"]

\* Formulation A's total is 0 and Formulation B's is not: the metric is
\* flagged as matching, and as not matching with the tables exchanged
C30_Witness ==
    /\ pc = "done"
    /\ \E i \in 1..Len(comparison) :
          /\ comparison[i]["OR-Tools Total"] = 0
          /\ comparison[i]["PyPSA Total"] # 0
          /\ comparison[i]["Match"]
          /\ ~SwappedRow(comparison[i].index)["Match"]
    /\ \E i \in 1..Len(comparison) :
          /\ comparison[i]["OR-Tools Total"] # 0
          /\ comparison[i]["PyPSA Total"] # comparison[i]["OR-Tools Total"]

====
